---- MODULE Spec2Model ----
(***************************************************************************)
(* Static-Website-Search: the Spectral Bloom Filter                        *)
(* (src/src/estimator/spectral_bloom_filter.rs), its hash                  *)
(* (src/src/hasher/murmur3.rs), the base2p15 codec                         *)
(* (src/src/compressor/base2p15.rs) and the export of main.rs; the earlier *)
(* filter (src/src/spectral_bloom_filter.rs with src/src/murmur3.rs) and   *)
(* the per-occurrence filter (src/src/sbf.rs with src/src/hash.rs).        *)
(*                                                                         *)
(* A Rust u32 does not fit a TLC integer, so a u32 is the pair <<hi, lo>>  *)
(* of its 16-bit halves (value = hi * 2^16 + lo) and the u32 operations of *)
(* the source are written on pairs.                                        *)
(***************************************************************************)
EXTENDS Integers, Sequences, FiniteSets, TLC

----------------------------------------------------------------------------
(* u32 arithmetic on <<hi, lo>> pairs *)

Half == 2^16

U32OfNat(n) == <<n \div Half, n % Half>>

\* u32::MAX
U32Max == <<Half - 1, Half - 1>>

U32Lt(a, b) == a[1] < b[1] \/ (a[1] = b[1] /\ a[2] < b[2])

U32Le(a, b) == a = b \/ U32Lt(a, b)

\* std::cmp::min on u32
U32Min(a, b) == IF U32Le(a, b) THEN a ELSE b

\* checked_add that wraps instead of returning None
checked_add_wrapping(a, b) ==
    LET lo == a[2] + b[2]
        hi == a[1] + b[1] + (lo \div Half)
    IN  [some |-> TRUE, v |-> <<hi % Half, lo % Half>>]

\* u32::checked_add: None on overflow
checked_add(a, b) ==
    LET lo == a[2] + b[2]
        hi == a[1] + b[1] + (lo \div Half)
    IN  IF hi >= Half THEN [some |-> FALSE, v |-> <<0, 0>>]
        ELSE [some |-> TRUE, v |-> <<hi, lo % Half>>]

\* u32::wrapping_add
wrapping_add(a, b) ==
    LET lo == a[2] + b[2]
    IN  <<(a[1] + b[1] + (lo \div Half)) % Half, lo % Half>>

\* the 32-bit product of two 16-bit halves, as a pair
Mul16(x, y) ==
    LET t1 == x * (y % 256)
        t2 == x * (y \div 256)
        s  == (t2 % 256) * 256 + t1
    IN  <<(t2 \div 256) + (s \div Half), s % Half>>

\* u32::wrapping_mul
wrapping_mul(a, b) ==
    LET p     == Mul16(a[2], b[2])
        cross == Mul16(a[1], b[2])[2] + Mul16(a[2], b[1])[2]
    IN  <<(p[1] + cross) % Half, p[2]>>

RECURSIVE BitXor(_, _)
BitXor(x, y) ==
    IF x = 0 THEN y
    ELSE IF y = 0 THEN x
    ELSE ((x + y) % 2) + 2 * BitXor(x \div 2, y \div 2)

\* ^ on u32
Xor32(a, b) == <<BitXor(a[1], b[1]), BitXor(a[2], b[2])>>

\* >> on u32, 0 < s < 32
Shr32(a, s) ==
    IF s >= 16 THEN <<0, a[1] \div 2^(s - 16)>>
    ELSE <<a[1] \div 2^s, (a[2] \div 2^s) + (a[1] % 2^s) * 2^(16 - s)>>

\* << on u32 (bits shifted out are dropped), 0 < s < 16
Shl32(a, s) ==
    <<((a[1] * 2^s) % Half) + (a[2] \div 2^(16 - s)), (a[2] * 2^s) % Half>>

\* u32::rotate_left, 0 < r < 16
rotate_left(a, r) ==
    LET l == Shl32(a, r)
        h == Shr32(a, 32 - r)
    IN  <<l[1] + h[1], l[2] + h[2]>>

\* u32 % m for a modulus 0 < m < 2^15
U32Mod(a, m) == ((a[1] % m) * (Half % m) + (a[2] % m)) % m

----------------------------------------------------------------------------
(* src/src/hasher/murmur3.rs *)

c1 == <<52382, 11601>>      \* 0xcc9e2d51
c2 == <<7047, 13715>>       \* 0x1b873593
r1 == 15
r2 == 13
m == <<0, 5>>
n == <<58964, 27492>>       \* 0xe6546b64
fmix1 == <<34283, 51819>>   \* 0x85ebca6b
fmix2 == <<49842, 44597>>   \* 0xc2b2ae35

\* bytes.chunks(4): the i-th chunk (1-based) of a byte sequence
Chunk(bytes, i) ==
    SubSeq(bytes, 4 * (i - 1) + 1, IF 4 * i <= Len(bytes) THEN 4 * i ELSE Len(bytes))

NChunks(bytes) == (Len(bytes) + 3) \div 4

\* u32::from_le_bytes of the chunk copied into a zeroed [u8; 4]
from_le_bytes(chunk) ==
    LET b(i) == IF i <= Len(chunk) THEN chunk[i] ELSE 0
    IN  <<b(3) + 256 * b(4), b(1) + 256 * b(2)>>

\* one iteration of the loop over the chunks
MixChunk(hash, chunk) ==
    LET k0 == from_le_bytes(chunk)
        k1 == wrapping_mul(k0, c1)
        k2 == rotate_left(k1, r1)
        k3 == wrapping_mul(k2, c2)
        h1 == Xor32(hash, k3)
    IN  IF Len(chunk) = 4
        THEN wrapping_add(wrapping_mul(rotate_left(h1, r2), m), n)
        ELSE h1

RECURSIVE MixChunks(_, _, _)
MixChunks(hash, bytes, i) ==
    IF i > NChunks(bytes) THEN hash
    ELSE MixChunks(MixChunk(hash, Chunk(bytes, i)), bytes, i + 1)

\* the finalisation after the loop
Finalize(hash, len) ==
    LET h1 == Xor32(hash, U32OfNat(len))
        h2 == Xor32(h1, Shr32(h1, 16))
        h3 == wrapping_mul(h2, fmix1)
        h4 == Xor32(h3, Shr32(h3, 13))
        h5 == wrapping_mul(h4, fmix2)
    IN  Xor32(h5, Shr32(h5, 16))

\* murmurhash3_x86_32 without the early return for no bytes
murmurhash3_x86_32_no_early_return(bytes, seed) ==
    Finalize(MixChunks(seed, bytes, 1), Len(bytes))

\* lines 10-12: no bytes hash to 0, whatever the seed
murmurhash3_x86_32(bytes, seed) ==
    IF Len(bytes) = 0 THEN <<0, 0>>
    ELSE Finalize(MixChunks(seed, bytes, 1), Len(bytes))

----------------------------------------------------------------------------
(* src/src/compressor/base2p15.rs *)
(* A String is the sequence of its characters' code points; '0' is 48.    *)

\* the offset of encode (161) and of decode (0xa1)
offset == 161

\* | on unsigned integers
RECURSIVE BitOr(_, _)
BitOr(x, y) ==
    IF x = 0 THEN y
    ELSE IF y = 0 THEN x
    ELSE (IF x % 2 = 1 \/ y % 2 = 1 THEN 1 ELSE 0) + 2 * BitOr(x \div 2, y \div 2)

\* "0".repeat(count)
Zeros(count) == [i \in 1..count |-> 48]

\* FoldBits on the bytes themselves, without the - 48
RECURSIVE FoldBitsAscii(_, _, _)
FoldBitsAscii(fifteen_bits, i, acc) ==
    IF i > Len(fifteen_bits) THEN acc
    ELSE FoldBitsAscii(fifteen_bits, i + 1, BitOr((acc * 2) % Half, fifteen_bits[i]))

\* fifteen_bits.iter().map(|x| *x as u16 - 48).fold(0, |x, y| (x << 1) | y), in u16
RECURSIVE FoldBits(_, _, _)
FoldBits(fifteen_bits, i, acc) ==
    IF i > Len(fifteen_bits) THEN acc
    ELSE FoldBits(fifteen_bits, i + 1, BitOr((acc * 2) % Half, fifteen_bits[i] - 48))

\* FormatHex with upper-case digits: format!("{:X}", v)
RECURSIVE FormatHexUpper(_)
FormatHexUpper(v) ==
    LET d == v % 16
        c == IF d < 10 THEN 48 + d ELSE 55 + d
    IN  IF v < 16 THEN <<c>> ELSE FormatHexUpper(v \div 16) \o <<c>>

\* the lower-case hex digits of a number: format!("{:x}", v)
RECURSIVE FormatHex(_)
FormatHex(v) ==
    LET d == v % 16
        c == IF d < 10 THEN 48 + d ELSE 87 + d
    IN  IF v < 16 THEN <<c>> ELSE FormatHex(v \div 16) \o <<c>>

\* the u16 units of the 15-bit chunks (chunks_exact(15)), each plus the offset;
\* a sum over u16::MAX panics with overflow checks and wraps without them
EncodeChunks(bits, off, checks) ==
    LET sums == [i \in 1..(Len(bits) \div 15) |->
                    FoldBits(SubSeq(bits, 15 * (i - 1) + 1, 15 * i), 1, 0) + off]
    IN  IF checks /\ \E i \in DOMAIN sums : sums[i] >= Half
        THEN [panic |-> TRUE, units |-> <<>>]
        ELSE [panic |-> FALSE, units |-> [i \in DOMAIN sums |-> sums[i] % Half]]

IsHighSurrogate(u) == 55296 <= u /\ u <= 56319
IsLowSurrogate(u) == 56320 <= u /\ u <= 57343

\* std::char::decode_utf16(..).map(|result| result.unwrap()).collect(): a surrogate
\* pair is one character, an unpaired surrogate is an Err and the unwrap panics
RECURSIVE decode_utf16(_, _)
decode_utf16(units, i) ==
    IF \A j \in i..Len(units) : ~IsHighSurrogate(units[j]) /\ ~IsLowSurrogate(units[j])
    THEN [panic |-> FALSE, chars |-> SubSeq(units, i, Len(units))]
    ELSE IF IsHighSurrogate(units[i]) /\ i < Len(units) /\ IsLowSurrogate(units[i + 1])
    THEN LET rest == decode_utf16(units, i + 2)
         IN  [panic |-> rest.panic,
              chars |-> <<Half + (units[i] - 55296) * 1024 + (units[i + 1] - 56320)>>
                        \o rest.chars]
    ELSE IF IsHighSurrogate(units[i]) \/ IsLowSurrogate(units[i])
    THEN [panic |-> TRUE, chars |-> <<>>]
    ELSE LET rest == decode_utf16(units, i + 1)
         IN  [panic |-> rest.panic, chars |-> <<units[i]>> \o rest.chars]

\* encode of a string of '0' and '1' (the only strings the model gives it): the text,
\* or a panic
encode(bit_string, checks) ==
    LET n_padded_bits == (15 - (Len(bit_string) % 15)) % 15
        padded        == bit_string \o Zeros(n_padded_bits)
        encoded       == EncodeChunks(padded, offset, checks)
        padding_char  == FormatHex(n_padded_bits)[1]
        chars         == decode_utf16(<<padding_char>> \o encoded.units, 1)
    IN  IF encoded.panic \/ chars.panic THEN [panic |-> TRUE, text |-> <<>>]
        ELSE [panic |-> FALSE, text |-> chars.chars]

\* char::to_digit(16): None for a character that is no hex digit
to_digit16(c) ==
    IF 48 <= c /\ c <= 57 THEN [some |-> TRUE, v |-> c - 48]
    ELSE IF 97 <= c /\ c <= 102 THEN [some |-> TRUE, v |-> c - 87]
    ELSE IF 65 <= c /\ c <= 70 THEN [some |-> TRUE, v |-> c - 55]
    ELSE [some |-> FALSE, v |-> 0]

\* the binary digits of a number, most significant first ("0" for 0)
RECURSIVE FormatBinary(_)
FormatBinary(v) ==
    IF v < 2 THEN <<48 + v>> ELSE FormatBinary(v \div 2) \o <<48 + (v % 2)>>

\* format!("{:0width$b}", v): at least min_width digits, padded with '0' on the left
ZeroPadBinary(v, min_width) ==
    LET digits == FormatBinary(v)
    IN  IF Len(digits) >= min_width THEN digits
        ELSE Zeros(min_width - Len(digits)) \o digits

\* format!("{:015b}", c as u32 - offset): below the offset the subtraction panics with
\* overflow checks and wraps to 2^32 - (offset - c) without them
DecodeChar(c, checks) ==
    IF c >= offset THEN [panic |-> FALSE, bits |-> ZeroPadBinary(c - offset, 15)]
    ELSE IF checks THEN [panic |-> TRUE, bits |-> <<>>]
    ELSE [panic |-> FALSE,
          bits |-> FormatBinary(Half - 1) \o ZeroPadBinary(Half - (offset - c), 16)]

RECURSIVE DecodeChars(_, _, _)
DecodeChars(text, i, checks) ==
    IF i > Len(text) THEN [panic |-> FALSE, bits |-> <<>>]
    ELSE LET head == DecodeChar(text[i], checks)
             rest == DecodeChars(text, i + 1, checks)
         IN  [panic |-> head.panic \/ rest.panic, bits |-> head.bits \o rest.bits]

\* PopBits over the inclusive range 0..=n_padded_bits
PopBitsInclusive(bits, count) ==
    IF count + 1 >= Len(bits) THEN <<>> ELSE SubSeq(bits, 1, Len(bits) - (count + 1))

\* (0..n_padded_bits).for_each(|_| { decoded.pop(); }): pop of "" does nothing
PopBits(bits, count) ==
    IF count >= Len(bits) THEN <<>> ELSE SubSeq(bits, 1, Len(bits) - count)

\* decode of a text: the bit string, or a panic
decode(base2p15_encoded, checks) ==
    IF Len(base2p15_encoded) = 0 THEN [panic |-> TRUE, bits |-> <<>>]
    ELSE LET n_padded_bits == to_digit16(base2p15_encoded[1])
             decoded       == DecodeChars(base2p15_encoded, 2, checks)
         IN  IF ~n_padded_bits.some \/ decoded.panic THEN [panic |-> TRUE, bits |-> <<>>]
             ELSE [panic |-> FALSE, bits |-> PopBits(decoded.bits, n_padded_bits.v)]

----------------------------------------------------------------------------
(* Inputs of the model *)

\* keys (UTF-8 bytes): "a", "z", "hello", "", "b", "c"
KeyUniverse == << <<97>>, <<122>>, <<104, 101, 108, 108, 111>>, <<>>, <<98>>, <<99>> >>

\* how many keys of KeyUniverse a frequency map may hold
MaxKeys == 3

Keys == {KeyUniverse[i] : i \in 1..MaxKeys}

\* "x": a key that is never inserted
AbsentKey == <<120>>

QueryKeys == Keys \cup {AbsentKey}

\* frequencies: 0, 1, 2 and u32::MAX
Freqs == {<<0, 0>>, <<0, 1>>, <<0, 2>>, U32Max}

\* false positive rates, in percent: 0.01, 0.3, 0.99 and 1.0
Rates == {1, 30, 99, 100}

Widths == {1, 2, 31}

\* rates outside (0, 1], in percent: -0.5 and 1.5
InvalidRates == {-50, 150}

\* widths outside 1..31
InvalidWidths == {0, 32}

\* the longest bit string given to encode
MaxLen == 15

\* every string of '0' and '1' of at most MaxLen characters
BitStrings == UNION {[1..len -> {48, 49}] : len \in 0..MaxLen}

\* texts given to decode that encode did not produce: no character at all, or a
\* header among '0', 'e', 'f', 'g' and at most MaxData characters among the code
\* points 160, 161, 33123 and 33124
MaxData == 2
HeaderChars == {48, 101, 102, 103}
DataChars == {160, 161, 33123, 33124}
ReceivedTexts ==
    {<<>>} \cup {<<h>> \o d : h \in HeaderChars,
                              d \in UNION {[1..len -> DataChars] : len \in 0..MaxData}}

\* every HashMap<String, u32> over Keys
Counters == UNION {[S -> Freqs] : S \in SUBSET Keys}

----------------------------------------------------------------------------
(* src/src/estimator/spectral_bloom_filter.rs *)

VARIABLES
    counter,              \* the frequency map given to new
    false_positive_rate,  \* in percent
    width,
    pc,                   \* "new", "fill", "built", "panicked"
    sbf_size,             \* new's local
    n_hash_functions,
    sbf,                  \* the count vector; slot i of the code is sbf[i + 1]
    pending,              \* the entries counter.into_iter() has not yielded yet
    query,                \* the last get_frequency call and what it returned
    panicked_in,          \* the function that panicked, or "none"
    overflow_checks,      \* the build: TRUE with overflow checks (debug), FALSE without
    cpc,                  \* the codec: "idle"; "input", "encoded", "decoded", "panicked"
                          \* for a bit string; "received", "received_decoded",
                          \* "received_panicked" for a text from elsewhere
    bit_string,           \* the argument of encode
    text,                 \* the result of encode, or a text given to decode
    decoded,              \* the result of decode
    hash_call,            \* one evaluation of hash_fn(bytes, seed) % size
    tokens,               \* sbf.rs: the token sequence given to new
    position              \* sbf.rs: how many tokens of it are inserted

filter_vars == <<counter, false_positive_rate, width, pc, sbf_size, n_hash_functions,
                 sbf, pending, query>>

codec_vars == <<cpc, bit_string, text, decoded>>

other_vars == <<hash_call, tokens, position>>

vars == <<filter_vars, codec_vars, panicked_in, overflow_checks, other_vars>>

\* The f32 arithmetic of optimal_size in fixed point: -ln(rate), ln 2 and (ln 2)^2 in
\* units of 1/10000. For the rates of Rates and up to 6 keys the ceilings are those of
\* the f32 computation (0.01: 10, 20, 29, 39, 48, 58 slots and 7 hashes; 0.3: 3, 6, 8,
\* 11, 13, 16 and 2; 0.99: 1 and 1; 1.0: 0 and 0).
Scale == 10000
NegLn(rate) ==
    CASE rate = 1   -> 46052
      [] rate = 30  -> 12040
      [] rate = 99  -> 101
      [] rate = 100 -> 0
      [] rate = 150 -> -4055
Ln2 == 6931
Ln2Sq == 4805

CeilDiv(a, b) == (a + b - 1) \div b

\* `as u32` of a float that is no NaN: a value below 0 becomes 0
AsU32(x) == IF x < 0 THEN 0 ELSE x

\* The float results are cast with `as u32`: a NaN (0.0 / 0.0 when there are
\* no tokens, and the logarithm of a negative rate) becomes 0.
optimal_size(n_unique_tokens, rate) ==
    IF rate < 0 THEN <<0, 0>>
    ELSE LET size  == CeilDiv(n_unique_tokens * NegLn(rate), Ln2Sq)
             n_hash == IF n_unique_tokens = 0 THEN 0
                       ELSE CeilDiv(n_unique_tokens * NegLn(rate) * Ln2,
                                    Ln2Sq * n_unique_tokens * Scale)
         IN  <<AsU32(size), AsU32(n_hash)>>

\* the seeds hash_indices passes: 0 .. n_hash_functions - 1
HashSeeds == UNION {0..(optimal_size(1, rate)[2] - 1) : rate \in Rates}

\* murmurhash3_x86_32 on every key and seed of the model, computed once
HashTable ==
    {<<key, seed, murmurhash3_x86_32(key, U32OfNat(seed))>> :
        key \in {KeyUniverse[i] : i \in DOMAIN KeyUniverse} \cup {AbsentKey}, seed \in HashSeeds}

\* `use crate::hasher::murmur3::murmurhash3_x86_32 as hash_fn`, seed i as u32
hash_fn(bytes, seed) == (CHOOSE t \in HashTable : t[1] = bytes /\ t[2] = seed)[3]

\* the slots of a key, 0-based as in the code, in hash-function order
hash_indices(key, n_hash, size) ==
    [i \in 1..n_hash |-> U32Mod(hash_fn(key, i - 1), size)]

\* upper_bound with one bit taken for a sign: 2^(width - 1) - 1
upper_bound_signed(w) ==
    IF w <= 17 THEN <<0, 2^(w - 1) - 1>> ELSE <<2^(w - 17) - 1, Half - 1>>

\* 2u32.pow(width) overflows a u32
pow_overflows(w) == w >= 32

\* 2u32.pow(width) - 1; for a width >= 32 as a build without overflow checks computes
\* it: the power wraps to 0 and 0 - 1 wraps to u32::MAX
upper_bound(w) ==
    IF pow_overflows(w) THEN U32Max
    ELSE IF w <= 16 THEN <<0, 2^w - 1>> ELSE <<2^(w - 16) - 1, Half - 1>>

\* indices.iter().map(|&i| sbf[i]).min(): None for no index
RECURSIVE MinOver(_, _, _)
MinOver(vec, indices, i) ==
    IF i = Len(indices) THEN vec[indices[i] + 1]
    ELSE U32Min(vec[indices[i] + 1], MinOver(vec, indices, i + 1))

min_slot(vec, indices) ==
    IF Len(indices) = 0 THEN [some |-> FALSE, v |-> <<0, 0>>]
    ELSE [some |-> TRUE, v |-> MinOver(vec, indices, 1)]

\* saturating_sum with wrapping_add in place of checked_add
saturating_sum_wrapping(minimum_value, frequency, w) ==
    U32Min(wrapping_add(minimum_value, frequency), upper_bound(w))

\* saturating_sum without the clamp of a sum that fits a u32
saturating_sum_unclamped(minimum_value, frequency, w) ==
    LET r == checked_add(minimum_value, frequency)
    IN  IF r.some THEN r.v ELSE upper_bound(w)

\* minimum_value.checked_add(frequency), clamped to upper_bound
saturating_sum(minimum_value, frequency, w) ==
    LET r == checked_add(minimum_value, frequency)
    IN  IF r.some THEN U32Min(r.v, upper_bound(w)) ELSE upper_bound(w)

\* raise_slots without the comparison: every slot of the key is overwritten
RECURSIVE raise_slots_always(_, _, _, _)
raise_slots_always(vec, indices, i, minimum_value) ==
    IF i > Len(indices) THEN vec
    ELSE raise_slots_always([vec EXCEPT ![indices[i] + 1] = minimum_value],
                            indices, i + 1, minimum_value)

\* raise_slots over every slot of the vector instead of the key's indices
raise_slots_everywhere(vec, indices, i, minimum_value) ==
    [j \in DOMAIN vec |-> IF U32Le(vec[j], minimum_value) THEN minimum_value ELSE vec[j]]

\* indices.iter().for_each(|&i| if sbf[i] <= minimum_value { sbf[i] = minimum_value })
RECURSIVE raise_slots(_, _, _, _)
raise_slots(vec, indices, i, minimum_value) ==
    IF i > Len(indices) THEN vec
    ELSE LET j == indices[i] + 1
         IN  raise_slots(IF U32Le(vec[j], minimum_value)
                         THEN [vec EXCEPT ![j] = minimum_value] ELSE vec,
                         indices, i + 1, minimum_value)

\* the closure insert_item of new: the count vector after the insertion, or a panic
\* (of 2u32.pow(width) in a build with overflow checks, of min().unwrap() on None)
insert_item(vec, key, frequency, n_hash, size, w, checks) ==
    LET indices == hash_indices(key, n_hash, size)
        lowest  == min_slot(vec, indices)
    IN  IF (checks /\ pow_overflows(w)) \/ ~lowest.some THEN [panic |-> TRUE, sbf |-> vec]
        ELSE [panic |-> FALSE,
              sbf |-> raise_slots(vec, indices, 1,
                                  saturating_sum(lowest.v, frequency, w))]

\* get_frequency with the maximum over the key's slots
get_frequency_max(vec, n_hash, key) ==
    LET indices == hash_indices(key, n_hash, Len(vec))
        values  == {vec[indices[i] + 1] : i \in DOMAIN indices}
    IN  [panic |-> Len(indices) = 0,
         value |-> IF values = {} THEN <<0, 0>>
                   ELSE CHOOSE v \in values : \A u \in values : U32Le(u, v)]

\* get_frequency on a filter: the minimum over the key's slots, or a panic
get_frequency(vec, n_hash, key) ==
    LET lowest == min_slot(vec, hash_indices(key, n_hash, Len(vec)))
    IN  [panic |-> ~lowest.some, value |-> lowest.v]

\* format!("{:b}", x) of a u32
FormatBinaryU32(x) ==
    IF x[1] = 0 THEN FormatBinary(x[2])
    ELSE FormatBinary(x[1]) \o ZeroPadBinary(x[2], 16)

\* format_counter without the padding: format!("{:b}", x)
format_counter_unpadded(x, w) == FormatBinaryU32(x)

\* format!("{:0width$b}", x, width = self.width as usize): at least w digits
format_counter(x, w) ==
    LET digits == FormatBinaryU32(x)
    IN  IF Len(digits) >= w THEN digits ELSE Zeros(w - Len(digits)) \o digits

\* as_bit_string: the renderings of the slots first .. last, concatenated in slot
\* order (the fold, split in halves)
RECURSIVE FoldCounters(_, _, _, _)
FoldCounters(vec, first, last, w) ==
    IF first > last THEN <<>>
    ELSE IF first = last THEN format_counter(vec[first], w)
    ELSE LET middle == (first + last) \div 2
         IN  FoldCounters(vec, first, middle, w) \o FoldCounters(vec, middle + 1, last, w)

as_bit_string(vec, w) == FoldCounters(vec, 1, Len(vec), w)

NoQuery == [key |-> <<>>, called |-> FALSE, value |-> <<0, 0>>]

NoHash == [bytes |-> <<>>, seed |-> <<0, 0>>, size |-> 1, called |-> FALSE,
           value |-> <<0, 0>>, slot |-> 0]

\* the variables of the parts that a specification leaves alone
OthersIdle ==
    /\ hash_call = NoHash
    /\ tokens = <<>>
    /\ position = 0

Init ==
    /\ counter \in Counters
    /\ false_positive_rate \in Rates
    /\ width \in Widths
    /\ pc = "new"
    /\ sbf_size = 0
    /\ n_hash_functions = 0
    /\ sbf = <<>>
    /\ pending = {}
    /\ query = NoQuery
    /\ panicked_in = "none"
    /\ overflow_checks = TRUE   \* no step of new or get_frequency overflows for a width in 1..31
    /\ cpc = "idle"
    /\ bit_string = <<>>
    /\ text = <<>>
    /\ decoded = <<>>
    /\ OthersIdle

\* new, lines 52-56: size the filter and allocate the zeroed count vector
NewAllocate ==
    /\ pc = "new"
    /\ LET sized == optimal_size(Cardinality(DOMAIN counter), false_positive_rate)
       IN  /\ sbf_size' = sized[1]
           /\ n_hash_functions' = sized[2]
           /\ sbf' = [i \in 1..sized[1] |-> <<0, 0>>]
    /\ pending' = DOMAIN counter
    /\ pc' = "fill"
    /\ UNCHANGED <<counter, false_positive_rate, width, query, panicked_in>>
    /\ UNCHANGED <<codec_vars, overflow_checks, other_vars>>

\* new, line 78: one step of counter.into_iter().for_each(insert_item); a HashMap
\* yields its entries in an arbitrary order
NewInsert ==
    /\ pc = "fill"
    /\ \E key \in pending :
         LET r == insert_item(sbf, key, counter[key], n_hash_functions, sbf_size,
                              width, overflow_checks)
         IN  IF r.panic
             THEN /\ pc' = "panicked"
                  /\ panicked_in' = "new"
                  /\ UNCHANGED <<sbf, pending>>
             ELSE /\ sbf' = r.sbf
                  /\ pending' = pending \ {key}
                  /\ UNCHANGED <<pc, panicked_in>>
    /\ UNCHANGED <<counter, false_positive_rate, width, sbf_size, n_hash_functions, query>>
    /\ UNCHANGED <<codec_vars, overflow_checks, other_vars>>

\* new, lines 81-85: every entry is inserted, the filter is returned
NewReturn ==
    /\ pc = "fill"
    /\ pending = {}
    /\ pc' = "built"
    /\ UNCHANGED <<counter, false_positive_rate, width, sbf_size, n_hash_functions,
                   sbf, pending, query, panicked_in>>
    /\ UNCHANGED <<codec_vars, overflow_checks, other_vars>>

\* a call of get_frequency on the built filter (the tests and the doc example, which
\* do not export the filter they query)
GetFrequency ==
    /\ pc = "built"
    /\ cpc = "idle"
    /\ \E key \in QueryKeys :
         LET r == get_frequency(sbf, n_hash_functions, key)
         IN  IF r.panic
             THEN /\ pc' = "panicked"
                  /\ panicked_in' = "get_frequency"
                  /\ query' = [key |-> key, called |-> TRUE, value |-> <<0, 0>>]
             ELSE /\ query' = [key |-> key, called |-> TRUE, value |-> r.value]
                  /\ UNCHANGED <<pc, panicked_in>>
    /\ UNCHANGED <<counter, false_positive_rate, width, sbf_size, n_hash_functions,
                   sbf, pending>>
    /\ UNCHANGED <<codec_vars, overflow_checks, other_vars>>

\* base2p15::encode(&bit_string)
Encode ==
    /\ cpc = "input"
    /\ LET r == encode(bit_string, overflow_checks)
       IN  IF r.panic
           THEN /\ cpc' = "panicked"
                /\ panicked_in' = "encode"
                /\ UNCHANGED text
           ELSE /\ cpc' = "encoded"
                /\ text' = r.text
                /\ UNCHANGED panicked_in
    /\ UNCHANGED <<filter_vars, overflow_checks, bit_string, decoded, other_vars>>

\* main.rs, line 90: sbf.as_bit_string(), the argument of base2p15::encode; main
\* never queries the filter it exports
AsBitString ==
    /\ pc = "built"
    /\ cpc = "idle"
    /\ ~query.called
    /\ bit_string' = as_bit_string(sbf, width)
    /\ cpc' = "input"
    /\ UNCHANGED <<filter_vars, panicked_in, overflow_checks, text, decoded, other_vars>>

\* NewAllocate .. NewReturn are SpectralBloomFilter::new; the filter is then queried
\* (get_frequency) or exported (main.rs: as_bit_string, then encode)
Next == NewAllocate \/ NewInsert \/ NewReturn \/ GetFrequency \/ AsBitString \/ Encode

Spec == Init /\ [][Next]_vars

\* new called with any rate and width, of which at least one is outside the documented
\* range, in either build
InitAnyParameters ==
    /\ counter \in Counters
    /\ false_positive_rate \in Rates \cup InvalidRates
    /\ width \in Widths \cup InvalidWidths
    /\ false_positive_rate \in InvalidRates \/ width \in InvalidWidths
    /\ pc = "new"
    /\ sbf_size = 0
    /\ n_hash_functions = 0
    /\ sbf = <<>>
    /\ pending = {}
    /\ query = NoQuery
    /\ panicked_in = "none"
    /\ overflow_checks \in BOOLEAN
    /\ cpc = "idle"
    /\ bit_string = <<>>
    /\ text = <<>>
    /\ decoded = <<>>
    /\ OthersIdle

SpecAnyParameters == InitAnyParameters /\ [][Next]_vars

----------------------------------------------------------------------------
(* src/src/spectral_bloom_filter.rs: the earlier variant of the filter, with the *)
(* hash of src/src/murmur3.rs. optimal_size, hash_indices and get_frequency read  *)
(* as in the estimator module.                                                    *)

\* keys shorter than one 4-byte block: murmur3.rs reads a block through a transmuted
\* slice (get_32_block), these keys have none
ShortKeys == {key \in Keys : Len(key) < 4}

CountersEarlier == UNION {[S -> Freqs] : S \in SUBSET ShortKeys}

\* src/src/murmur3.rs, murmurhash3_x86_32 for less than 4 bytes: no block, the tail
\* mixed into h1, the length, fmix32; no early return for no bytes
murmurhash3_x86_32_earlier(bytes, seed) ==
    Finalize(MixChunks(seed, bytes, 1), Len(bytes))

HashTableEarlier ==
    {<<key, seed, murmurhash3_x86_32_earlier(key, U32OfNat(seed))>> :
        key \in ShortKeys \cup {AbsentKey}, seed \in HashSeeds}

hash_fn_earlier(bytes, seed) ==
    (CHOOSE t \in HashTableEarlier : t[1] = bytes /\ t[2] = seed)[3]

hash_indices_earlier(key, n_hash, size) ==
    [i \in 1..n_hash |-> U32Mod(hash_fn_earlier(key, i - 1), size)]

\* the earlier insert_item: the minimum is clamped to 2^width - 1 before the
\* addition, and a sum that fits a u32 is written as it is
insert_item_earlier(vec, key, frequency, n_hash, size, w, checks) ==
    LET indices == hash_indices_earlier(key, n_hash, size)
        lowest  == min_slot(vec, indices)
    IN  IF ~lowest.some \/ (checks /\ pow_overflows(w)) THEN [panic |-> TRUE, sbf |-> vec]
        ELSE LET minimum_value == U32Min(lowest.v, upper_bound(w))
                 r == checked_add(minimum_value, frequency)
             IN  [panic |-> FALSE,
                  sbf |-> raise_slots(vec, indices, 1,
                                      IF r.some THEN r.v ELSE upper_bound(w))]

get_frequency_earlier(vec, n_hash, key) ==
    LET lowest == min_slot(vec, hash_indices_earlier(key, n_hash, Len(vec)))
    IN  [panic |-> ~lowest.some, value |-> lowest.v]

InitEarlier ==
    /\ counter \in CountersEarlier
    /\ false_positive_rate \in Rates
    /\ width \in Widths
    /\ pc = "new"
    /\ sbf_size = 0
    /\ n_hash_functions = 0
    /\ sbf = <<>>
    /\ pending = {}
    /\ query = NoQuery
    /\ panicked_in = "none"
    /\ overflow_checks = TRUE
    /\ cpc = "idle"
    /\ bit_string = <<>>
    /\ text = <<>>
    /\ decoded = <<>>
    /\ OthersIdle

\* one step of counter.into_iter().for_each(insert_item) of the earlier new
NewInsertEarlier ==
    /\ pc = "fill"
    /\ \E key \in pending :
         LET r == insert_item_earlier(sbf, key, counter[key], n_hash_functions, sbf_size,
                                      width, overflow_checks)
         IN  IF r.panic
             THEN /\ pc' = "panicked"
                  /\ panicked_in' = "new"
                  /\ UNCHANGED <<sbf, pending>>
             ELSE /\ sbf' = r.sbf
                  /\ pending' = pending \ {key}
                  /\ UNCHANGED <<pc, panicked_in>>
    /\ UNCHANGED <<counter, false_positive_rate, width, sbf_size, n_hash_functions, query>>
    /\ UNCHANGED <<codec_vars, overflow_checks, other_vars>>

GetFrequencyEarlier ==
    /\ pc = "built"
    /\ \E key \in ShortKeys \cup {AbsentKey} :
         LET r == get_frequency_earlier(sbf, n_hash_functions, key)
         IN  IF r.panic
             THEN /\ pc' = "panicked"
                  /\ panicked_in' = "get_frequency"
                  /\ query' = [key |-> key, called |-> TRUE, value |-> <<0, 0>>]
             ELSE /\ query' = [key |-> key, called |-> TRUE, value |-> r.value]
                  /\ UNCHANGED <<pc, panicked_in>>
    /\ UNCHANGED <<counter, false_positive_rate, width, sbf_size, n_hash_functions,
                   sbf, pending>>
    /\ UNCHANGED <<codec_vars, overflow_checks, other_vars>>

NextEarlier == NewAllocate \/ NewInsertEarlier \/ NewReturn \/ GetFrequencyEarlier

SpecEarlier == InitEarlier /\ [][NextEarlier]_vars

----------------------------------------------------------------------------
(* src/src/sbf.rs with src/src/hash.rs: the filter that inserts a token sequence *)
(* one occurrence at a time. A token is the sequence of its characters' code     *)
(* points.                                                                       *)

\* tokens: "a", "b", "h" and ""
TokenUniverse == {<<97>>, <<98>>, <<104>>, <<>>}

\* "x": a token that is never inserted
AbsentToken == <<120>>

\* the longest token sequence given to new
MaxTokens == 4

TokenSequences == UNION {[1..len -> TokenUniverse] : len \in 0..MaxTokens}

\* hash.rs: the sum of (i + 1) * c over the characters, in u64
RECURSIVE string_hash(_, _)
string_hash(token, i) ==
    IF i > Len(token) THEN 0 ELSE i * token[i] + string_hash(token, i + 1)

\* hash.rs: (string_hash + 1) * (seed + 1)
naive_hash(token, seed) == (string_hash(token, 1) + 1) * (seed + 1)

\* sbf.rs hash_indices: naive_hash(token, i) % sbf_size for i in 0..n_hash_functions
hash_indices_stream(token, n_hash, size) ==
    [i \in 1..n_hash |-> naive_hash(token, i - 1) % size]

\* the number of occurrences of a token in a sequence
Occurrences(seq, token) == Cardinality({i \in DOMAIN seq : seq[i] = token})

\* new, lines 37-40: the tokens counted
CountTokens(seq) ==
    [token \in {seq[i] : i \in DOMAIN seq} |-> U32OfNat(Occurrences(seq, token))]

\* increment_minimum that stops after the first slot it incremented
RECURSIVE increment_minimum_once(_, _, _, _)
increment_minimum_once(vec, indices, i, minimum_value) ==
    IF i > Len(indices) THEN vec
    ELSE LET j == indices[i] + 1
         IN  IF vec[j] = minimum_value
             THEN [vec EXCEPT ![j] = wrapping_add(vec[j], <<0, 1>>)]
             ELSE increment_minimum_once(vec, indices, i + 1, minimum_value)

\* indices.into_iter().for_each(|i| if sbf[i] == minimum_value { sbf[i] += 1 }); the
\* sum stays far below 2^32
RECURSIVE increment_minimum(_, _, _, _)
increment_minimum(vec, indices, i, minimum_value) ==
    IF i > Len(indices) THEN vec
    ELSE LET j == indices[i] + 1
         IN  increment_minimum(IF vec[j] = minimum_value
                               THEN [vec EXCEPT ![j] = wrapping_add(vec[j], <<0, 1>>)]
                               ELSE vec,
                               indices, i + 1, minimum_value)

\* the closure insert_item of sbf.rs: the count vector after one occurrence, or a
\* panic of min().unwrap() on None
insert_token(vec, token, n_hash, size) ==
    LET indices == hash_indices_stream(token, n_hash, size)
        lowest  == min_slot(vec, indices)
    IN  IF ~lowest.some THEN [panic |-> TRUE, sbf |-> vec]
        ELSE [panic |-> FALSE, sbf |-> increment_minimum(vec, indices, 1, lowest.v)]

\* sbf.rs get_frequency: the minimum over the token's slots, or a panic
get_frequency_stream(vec, n_hash, token) ==
    LET lowest == min_slot(vec, hash_indices_stream(token, n_hash, Len(vec)))
    IN  [panic |-> ~lowest.some, value |-> lowest.v]

InitStream ==
    /\ tokens \in TokenSequences
    /\ position = 0
    /\ false_positive_rate \in Rates
    /\ counter = <<>>
    /\ width = 32          \* no width parameter: the slots are plain u32
    /\ pc = "new"
    /\ sbf_size = 0
    /\ n_hash_functions = 0
    /\ sbf = <<>>
    /\ pending = {}
    /\ query = NoQuery
    /\ panicked_in = "none"
    /\ overflow_checks = TRUE
    /\ cpc = "idle"
    /\ bit_string = <<>>
    /\ text = <<>>
    /\ decoded = <<>>
    /\ hash_call = NoHash

\* new, lines 37-47: count the tokens, size the filter, allocate the count vector
NewStreamAllocate ==
    /\ pc = "new"
    /\ counter' = CountTokens(tokens)
    /\ LET sized == optimal_size(Cardinality(DOMAIN counter'), false_positive_rate)
       IN  /\ sbf_size' = sized[1]
           /\ n_hash_functions' = sized[2]
           /\ sbf' = [i \in 1..sized[1] |-> <<0, 0>>]
    /\ pc' = "fill"
    /\ UNCHANGED <<false_positive_rate, width, pending, query, panicked_in>>
    /\ UNCHANGED <<codec_vars, overflow_checks, hash_call, tokens, position>>

\* new, line 61: one step of tokens.into_iter().for_each(insert_item), in sequence
\* order
NewStreamInsert ==
    /\ pc = "fill"
    /\ position < Len(tokens)
    /\ LET r == insert_token(sbf, tokens[position + 1], n_hash_functions, sbf_size)
       IN  IF r.panic
           THEN /\ pc' = "panicked"
                /\ panicked_in' = "new"
                /\ UNCHANGED <<sbf, position>>
           ELSE /\ sbf' = r.sbf
                /\ position' = position + 1
                /\ UNCHANGED <<pc, panicked_in>>
    /\ UNCHANGED <<counter, false_positive_rate, width, sbf_size, n_hash_functions,
                   pending, query>>
    /\ UNCHANGED <<codec_vars, overflow_checks, hash_call, tokens>>

\* new, lines 64-67: every occurrence is inserted, the filter is returned
NewStreamReturn ==
    /\ pc = "fill"
    /\ position = Len(tokens)
    /\ pc' = "built"
    /\ UNCHANGED <<counter, false_positive_rate, width, sbf_size, n_hash_functions,
                   sbf, pending, query, panicked_in>>
    /\ UNCHANGED <<codec_vars, overflow_checks, other_vars>>

\* a call of sbf.rs get_frequency on the built filter
GetFrequencyStream ==
    /\ pc = "built"
    /\ \E token \in TokenUniverse \cup {AbsentToken} :
         LET r == get_frequency_stream(sbf, n_hash_functions, token)
         IN  IF r.panic
             THEN /\ pc' = "panicked"
                  /\ panicked_in' = "get_frequency"
                  /\ query' = [key |-> token, called |-> TRUE, value |-> <<0, 0>>]
             ELSE /\ query' = [key |-> token, called |-> TRUE, value |-> r.value]
                  /\ UNCHANGED <<pc, panicked_in>>
    /\ UNCHANGED <<counter, false_positive_rate, width, sbf_size, n_hash_functions,
                   sbf, pending>>
    /\ UNCHANGED <<codec_vars, overflow_checks, other_vars>>

NextStream ==
    NewStreamAllocate \/ NewStreamInsert \/ NewStreamReturn \/ GetFrequencyStream

SpecStream == InitStream /\ [][NextStream]_vars

----------------------------------------------------------------------------
(* The codec on its own: encode of a bit string and decode of the result, *)
(* and decode of a text that comes from elsewhere.                        *)

InitCodec ==
    /\ counter = <<>>
    /\ false_positive_rate = 1
    /\ width = 1
    /\ pc = "idle"
    /\ sbf_size = 0
    /\ n_hash_functions = 0
    /\ sbf = <<>>
    /\ pending = {}
    /\ query = NoQuery
    /\ panicked_in = "none"
    /\ overflow_checks \in BOOLEAN
    /\ decoded = <<>>
    /\ OthersIdle
    /\ \/ /\ cpc = "input"
          /\ bit_string \in BitStrings
          /\ text = <<>>
       \/ /\ cpc = "received"
          /\ bit_string = <<>>
          /\ text \in ReceivedTexts

\* base2p15::decode(&text)
Decode ==
    /\ cpc \in {"encoded", "received"}
    /\ LET r == decode(text, overflow_checks)
       IN  IF r.panic
           THEN /\ cpc' = IF cpc = "encoded" THEN "panicked" ELSE "received_panicked"
                /\ panicked_in' = "decode"
                /\ UNCHANGED decoded
           ELSE /\ cpc' = IF cpc = "encoded" THEN "decoded" ELSE "received_decoded"
                /\ decoded' = r.bits
                /\ UNCHANGED panicked_in
    /\ UNCHANGED <<filter_vars, overflow_checks, bit_string, text, other_vars>>

NextCodec == Encode \/ Decode

SpecCodec == InitCodec /\ [][NextCodec]_vars

----------------------------------------------------------------------------
(* The hash on its own: hash_fn(key.as_bytes(), i) % sbf_size of hash_indices, *)
(* for seeds over the whole u32 range.                                         *)

\* the halves of the seeds: 0, 1, 6, 0x8000 and 0xffff
SeedHalves == {0, 1, 6, 32768, 65535}

Seeds == SeedHalves \X SeedHalves

HashInputs == {KeyUniverse[i] : i \in DOMAIN KeyUniverse} \cup {AbsentKey}

\* slot counts: those of 1 key at the rates 0.99, 0.3 and 0.01
HashSizes == {optimal_size(1, rate)[1] : rate \in {99, 30, 1}}

\* the variables of the filter and the codec when neither runs
FilterAndCodecIdle ==
    /\ counter = <<>>
    /\ false_positive_rate = 1
    /\ width = 1
    /\ pc = "idle"
    /\ sbf_size = 0
    /\ n_hash_functions = 0
    /\ sbf = <<>>
    /\ pending = {}
    /\ query = NoQuery
    /\ panicked_in = "none"
    /\ overflow_checks = TRUE
    /\ cpc = "idle"
    /\ bit_string = <<>>
    /\ text = <<>>
    /\ decoded = <<>>

InitHash ==
    /\ FilterAndCodecIdle
    /\ tokens = <<>>
    /\ position = 0
    /\ \E bytes \in HashInputs, seed \in Seeds, size \in HashSizes :
          hash_call = [bytes |-> bytes, seed |-> seed, size |-> size, called |-> FALSE,
                       value |-> <<0, 0>>, slot |-> 0]

\* hash_indices, line 98, for one seed: hash_fn(key.as_bytes(), i) % sbf_size
HashIndex ==
    /\ ~hash_call.called
    /\ LET value == murmurhash3_x86_32(hash_call.bytes, hash_call.seed)
       IN  hash_call' = [hash_call EXCEPT !.called = TRUE, !.value = value,
                                          !.slot = U32Mod(value, hash_call.size)]
    /\ UNCHANGED <<filter_vars, codec_vars, panicked_in, overflow_checks, tokens, position>>

NextHash == HashIndex

SpecHash == InitHash /\ [][NextHash]_vars

----------------------------------------------------------------------------
(* Properties of the filter, checked under Spec *)

\* the slots of a key in the filter of the current state
SlotSet(key) ==
    {hash_indices(key, n_hash_functions, sbf_size)[i] : i \in 1..n_hash_functions}

Zero == <<0, 0>>

\* the last get_frequency call returned, and its key is a key of the map
QueriedKeyOfMap == pc = "built" /\ query.called /\ query.key \in DOMAIN counter

\* C1 as stated: get_frequency(x) >= f[x] for every key x of the map.
NoUndershoot ==
    QueriedKeyOfMap => U32Le(counter[query.key], query.value)

\* C1 amended: get_frequency(x) >= min(f[x], 2^W - 1) for every key x of the map.
NoUndershootUpToSaturation ==
    QueriedKeyOfMap =>
        U32Le(U32Min(counter[query.key], upper_bound(width)), query.value)

\* a key whose frequency exceeds 2^W - 1 was queried, in a filter where it shares a
\* slot with another key
WitnessSaturatedQuery ==
    /\ QueriedKeyOfMap
    /\ U32Lt(upper_bound(width), counter[query.key])
    /\ query.value = upper_bound(width)
    /\ \E y \in DOMAIN counter \ {query.key} : SlotSet(y) \cap SlotSet(query.key) # {}

AllWithinWidth == \A x \in DOMAIN counter : U32Le(counter[x], upper_bound(width))

\* C2: when every frequency is <= 2^W - 1, whatever the order of the insertions,
\* get_frequency(x) is never below f[x] for a key x of the map.
NoUndershootWithinWidth ==
    (pc = "built" /\ AllWithinWidth) =>
        \A x \in DOMAIN counter :
            LET r == get_frequency(sbf, n_hash_functions, x)
            IN  ~r.panic /\ U32Le(counter[x], r.value)

\* a built filter of frequencies <= 2^W - 1 in which two keys with different slot sets
\* share a slot and one of them is estimated above its frequency
WitnessCollidingKeys ==
    /\ pc = "built"
    /\ AllWithinWidth
    /\ \E x, y \in DOMAIN counter :
          /\ x # y
          /\ SlotSet(x) \cap SlotSet(y) # {}
          /\ SlotSet(x) # SlotSet(y)
          /\ U32Lt(Zero, counter[x])
          /\ U32Lt(counter[y], get_frequency(sbf, n_hash_functions, y).value)

Saturation ==
    pc = "built" =>
        \A x \in DOMAIN counter :
            U32Lt(upper_bound(width), counter[x]) =>
                LET r == get_frequency(sbf, n_hash_functions, x)
                IN  ~r.panic /\ r.value = upper_bound(width)

\* a built filter of width 31 where two keys of frequency u32::MAX share every slot,
\* so that the second insertion's checked_add overflowed
WitnessSaturatedOverflow ==
    /\ pc = "built"
    /\ width = 31
    /\ \E x, y \in DOMAIN counter :
          /\ x # y
          /\ counter[x] = U32Max
          /\ counter[y] = U32Max
          /\ SlotSet(x) = SlotSet(y)
          /\ get_frequency(sbf, n_hash_functions, x).value = upper_bound(31)

\* C9 as stated: for a non-empty map, a rate in (0, 1] and a width in 1..31, new does
\* not fail (every rate of Rates is in (0, 1], every width of Widths in 1..31).
NewNeverFails ==
    DOMAIN counter # {} => panicked_in # "new"

\* C10 as stated: for the empty map, new rejects the input or returns a filter with
\* m = 0 and k = 0 on which get_frequency returns 0 for every key. (new has no
\* rejection: it returns the filter.)
EmptyMapQueriesReturnZero ==
    DOMAIN counter = {} =>
        /\ pc = "built" => (sbf_size = 0 /\ n_hash_functions = 0)
        /\ query.called => (pc = "built" /\ query.value = Zero)

----------------------------------------------------------------------------
(* Properties of the codec, checked under SpecCodec *)

\* C5: decode(encode(s)) = s for every bit string s, and neither call fails.
RoundTrip ==
    /\ cpc # "panicked"
    /\ cpc = "decoded" => decoded = bit_string

\* a bit string with a '1', of a length that is no multiple of 15, came back
WitnessRoundTrip ==
    /\ cpc = "decoded"
    /\ Len(bit_string) % 15 = 7
    /\ \E i \in DOMAIN bit_string : bit_string[i] = 49
    /\ decoded = bit_string

\* the digits '0'..'9', 'a'..'e' of the padding lengths 0..14
PaddingDigits == <<48, 49, 50, 51, 52, 53, 54, 55, 56, 57, 97, 98, 99, 100, 101>>

\* C6: encode(s) has 1 + ceil(len(s) / 15) characters, the first being the hex digit
\* of the padding length (15 - len(s) mod 15) mod 15.
LengthLaw ==
    cpc \in {"encoded", "decoded"} =>
        /\ Len(text) = 1 + ((Len(bit_string) + 14) \div 15)
        /\ text[1] = PaddingDigits[((15 - (Len(bit_string) % 15)) % 15) + 1]

\* a bit string of 4 characters was encoded: 11 bits of padding, header 'b'
WitnessLengthLaw ==
    /\ cpc = "encoded"
    /\ Len(bit_string) = 4
    /\ Len(text) = 2
    /\ text[1] = 98

\* C7: every data character of encode(s) has a code point in [161, 33124), no
\* character of encode(s) is a surrogate, and encode does not fail.
SurrogateSafety ==
    /\ panicked_in # "encode"
    /\ cpc \in {"encoded", "decoded"} =>
          /\ \A i \in 2..Len(text) : 161 <= text[i] /\ text[i] < 33124
          /\ \A i \in 1..Len(text) : ~(55296 <= text[i] /\ text[i] <= 57343)

\* fifteen '1' were encoded: the data character is the highest one, 32767 + 161
WitnessHighestChar ==
    /\ cpc = "encoded"
    /\ Len(bit_string) = 15
    /\ text = <<48, 32928>>

\* a text decode has to accept: a header '0'..'e', data characters in [161, 33124)
ValidText(t) ==
    /\ Len(t) >= 1
    /\ \E i \in DOMAIN PaddingDigits : t[1] = PaddingDigits[i]
    /\ \A i \in 2..Len(t) : 161 <= t[i] /\ t[i] < 33124

\* C8 as stated: decode fails on a text with no character, with a header that is no
\* padding digit, or with a data character outside [161, 33124).
DecodeRejectsInvalid ==
    cpc = "received_decoded" => ValidText(text)

----------------------------------------------------------------------------
(* Parameters outside the documented range, checked under SpecAnyParameters *)

\* C11 as stated: with a rate outside (0, 1] or a width that is 0 or >= 32, new
\* fails before it writes a counter: it never returns a filter and no slot of the
\* count vector ever holds a written value.
InvalidParametersRejected ==
    (false_positive_rate \in InvalidRates \/ width \in InvalidWidths) =>
        /\ pc # "built"
        /\ \A i \in DOMAIN sbf : sbf[i] = Zero

----------------------------------------------------------------------------
(* The hash of no bytes, checked under SpecHash *)

\* C12: the hash of the empty byte sequence is 0 for every seed, so the slot derived
\* from it is slot 0 whatever the seed and the slot count.
EmptyKeyHashesToZero ==
    (hash_call.called /\ hash_call.bytes = <<>>) =>
        /\ hash_call.value = Zero
        /\ hash_call.slot = 0

\* the empty byte sequence was hashed with seed 0xffffffff for a filter of 10 slots
WitnessEmptyKeyMaxSeed ==
    /\ hash_call.called
    /\ hash_call.bytes = <<>>
    /\ hash_call.seed = U32Max
    /\ hash_call.size = 10
    /\ hash_call.slot = 0

----------------------------------------------------------------------------
(* The exported filter, checked under Spec *)

\* C13: as_bit_string renders every counter of a built filter as exactly W bits, so
\* the bit string has size * W bits and its encoding has 1 header character and
\* ceil(size * W / 15) data characters.
ExportLength ==
    /\ cpc \in {"input", "encoded"} =>
          /\ \A i \in DOMAIN sbf : Len(format_counter(sbf[i], width)) = width
          /\ Len(bit_string) = sbf_size * width
    /\ cpc = "encoded" => Len(text) = 1 + CeilDiv(sbf_size * width, 15)

\* a filter of width 31 with a saturated slot (thirty-one '1') was encoded, its
\* bit string being no multiple of 15 bits long
WitnessExportSaturated ==
    /\ cpc = "encoded"
    /\ width = 31
    /\ \E i \in DOMAIN sbf : sbf[i] = upper_bound(31)
    /\ (sbf_size * width) % 15 # 0
    /\ Len(text) > 2

----------------------------------------------------------------------------
(* The insertion steps of new, checked under Spec *)

\* C14: a step of new's insertion loop lowers no slot, and an insertion changes only
\* slots of the inserted key.
ConservativeUpdateMonotone ==
    [][pc = "fill" =>
          /\ DOMAIN sbf' = DOMAIN sbf
          /\ \A i \in DOMAIN sbf : U32Le(sbf[i], sbf'[i])
          /\ pending' # pending =>
                \E key \in pending :
                    /\ pending' = pending \ {key}
                    /\ \A i \in DOMAIN sbf :
                          sbf'[i] # sbf[i] => (i - 1) \in SlotSet(key)]_vars

\* during the loop, two inserted keys with frequencies >= 1 overlap in part: a shared
\* slot was raised above the frequency of one of them, which still has a slot at
\* its own frequency
WitnessRaisedSharedSlot ==
    /\ pc = "fill"
    /\ pending # {}
    /\ \E x, y \in DOMAIN counter \ pending :
          /\ x # y
          /\ counter[x] # Zero /\ counter[y] # Zero
          /\ \E i \in SlotSet(x) \cap SlotSet(y) : U32Lt(counter[x], sbf[i + 1])
          /\ \E j \in SlotSet(x) \ SlotSet(y) : sbf[j + 1] = counter[x]

----------------------------------------------------------------------------
(* The bound of the counters, checked under SpecEarlier (and under Spec) *)

\* C15 as stated: in every state during and after construction every slot of the
\* count vector is at most 2^W - 1.
CounterBound ==
    \A i \in DOMAIN sbf : U32Le(sbf[i], upper_bound(width))

----------------------------------------------------------------------------
(* The order of the insertions, checked under Spec *)

\* the keys of a set in the order of KeyUniverse
OrderedKeys(S) == SelectSeq(KeyUniverse, LAMBDA key : key \in S)

\* counter.into_iter().for_each(insert_item) when the entries come in the order order
RECURSIVE InsertAll(_, _, _)
InsertAll(vec, order, i) ==
    IF i > Len(order) THEN vec
    ELSE InsertAll(insert_item(vec, order[i], counter[order[i]], n_hash_functions,
                               sbf_size, width, overflow_checks).sbf,
                   order, i + 1)

\* the count vector that the insertions in the order of KeyUniverse give
InKeyUniverseOrder ==
    InsertAll([i \in 1..sbf_size |-> Zero], OrderedKeys(DOMAIN counter), 1)

\* C16 as stated: whatever the order of the insertions, the final count vector is
\* the same (the one that the order of KeyUniverse gives).
OrderInsensitive ==
    pc = "built" => sbf = InKeyUniverseOrder

\* no two keys of the map overlap in part: their slot sets are equal or disjoint
NoPartialOverlap ==
    \A x, y \in DOMAIN counter :
        SlotSet(x) = SlotSet(y) \/ SlotSet(x) \cap SlotSet(y) = {}

\* C16 amended: when the slot sets of every two keys of the map are equal or
\* disjoint, the final count vector is the same whatever the order of the insertions.
OrderInsensitiveWithoutPartialOverlap ==
    (pc = "built" /\ NoPartialOverlap) => sbf = InKeyUniverseOrder

\* a filter was built from three keys with different frequencies >= 1 of which no
\* two overlap in part and two have the same slots
WitnessOrderOfEqualSlotSets ==
    /\ pc = "built"
    /\ NoPartialOverlap
    /\ Cardinality(DOMAIN counter) = 3
    /\ \E x, y \in DOMAIN counter :
          /\ x # y
          /\ SlotSet(x) = SlotSet(y)
          /\ counter[x] # Zero /\ counter[y] # Zero /\ counter[x] # counter[y]

----------------------------------------------------------------------------
(* Exact estimates, checked under Spec *)

\* the key has a slot that is a slot of no other key of the map
HasPrivateSlot(x) ==
    \E slot \in SlotSet(x) : \A y \in DOMAIN counter \ {x} : slot \notin SlotSet(y)

\* C17: when every frequency is <= 2^W - 1, a key of the map with a slot shared with
\* no other key of the map is estimated at exactly its frequency, and a key that was
\* not inserted with a slot of no inserted key is estimated at 0.
ExactWithPrivateSlot ==
    (pc = "built" /\ AllWithinWidth) =>
        /\ \A x \in QueryKeys :
              HasPrivateSlot(x) =>
                  LET r == get_frequency(sbf, n_hash_functions, x)
                  IN  /\ ~r.panic
                      /\ r.value = IF x \in DOMAIN counter THEN counter[x] ELSE Zero
        /\ (query.called /\ HasPrivateSlot(query.key)) =>
              query.value = IF query.key \in DOMAIN counter THEN counter[query.key]
                            ELSE Zero

\* get_frequency returned the frequency f >= 1 of a key that has a private slot and
\* a slot raised above f by another key, in a filter where the never-inserted key "x"
\* has a slot above 0 and a slot of no inserted key
WitnessExactDespiteCollision ==
    /\ pc = "built"
    /\ AllWithinWidth
    /\ query.called
    /\ query.key \in DOMAIN counter
    /\ HasPrivateSlot(query.key)
    /\ query.value = counter[query.key]
    /\ query.value # Zero
    /\ \E slot \in SlotSet(query.key) : U32Lt(counter[query.key], sbf[slot + 1])
    /\ AbsentKey \notin DOMAIN counter
    /\ HasPrivateSlot(AbsentKey)
    /\ \E slot \in SlotSet(AbsentKey) : sbf[slot + 1] # Zero

----------------------------------------------------------------------------
(* The filter of sbf.rs, checked under SpecStream *)

\* the slots of a token in the filter of the current state
StreamSlotSet(token) ==
    {hash_indices_stream(token, n_hash_functions, sbf_size)[i] : i \in 1..n_hash_functions}

\* C18: after the whole token sequence is inserted, get_frequency(t) is at least the
\* number of occurrences of t, for every token t of the sequence.
StreamNoUndershoot ==
    pc = "built" =>
        /\ \A i \in DOMAIN tokens :
              LET r == get_frequency_stream(sbf, n_hash_functions, tokens[i])
              IN  /\ ~r.panic
                  /\ U32Le(U32OfNat(Occurrences(tokens, tokens[i])), r.value)
        /\ (query.called /\ \E i \in DOMAIN tokens : tokens[i] = query.key) =>
              U32Le(U32OfNat(Occurrences(tokens, query.key)), query.value)

\* get_frequency was called for a token that occurs twice or more, has more hash
\* indices than slots of its own (several indices are the same slot) and shares a
\* slot with another token of the sequence
WitnessRepeatedTokenSameSlot ==
    /\ pc = "built"
    /\ query.called
    /\ Occurrences(tokens, query.key) >= 2
    /\ Cardinality(StreamSlotSet(query.key)) < n_hash_functions
    /\ Cardinality(StreamSlotSet(query.key)) > 1
    /\ \E i \in DOMAIN tokens :
          /\ tokens[i] # query.key
          /\ StreamSlotSet(tokens[i]) \cap StreamSlotSet(query.key) # {}

====
